---- MODULE Spec2Model ----
(***************************************************************************)
(* Macau bus collector: the polling loop of bus_data.py (arrival detector, *)
(* stale-state reaper, arrival store) and the trip segmentation of         *)
(* src/data_processing.py.                                                 *)
(*                                                                         *)
(* Time is counted in whole seconds.  datetime.now() is read once per      *)
(* process_response call: the calls inside one pass are microseconds       *)
(* apart, while the threshold of the reaper is 1800 s.                     *)
(***************************************************************************)
EXTENDS Integers, Sequences, FiniteSets, TLC

\* Python None: the default of dict.get and the value of a JSON null.
None == "None"
\* A key that a JSON object of the response does not have.
Missing == "Missing"

\* bus_data.py, module constants
STALE_THRESHOLD_MINUTES == 30
SLEEP_INTERVAL_SECONDS == 5
\* config.ROUTES, cut to its first two routes
ROUTES == <<"71", "72">>

\* ---- bounds of the model ----
\* number of poll cycles of main's while-loop that are explored
MaxCycles == 2
\* number of times the feed delivers, for a bus at a station, a status other
\* than the one it delivered there before
MaxChanges == 2

\* the feed: station codes of a route by position, bus plates, status values
StaCodes == <<"M1", "M2">>
Plates == {"MA1", "MB2"}
Statuses == {"0", "1", None}
\* time from one cycle to the next: the sleep alone, or the sleep and requests
\* that hung until the stale threshold, or until one sleep less
Pauses == {SLEEP_INTERVAL_SECONDS,
           STALE_THRESHOLD_MINUTES * 60,
           STALE_THRESHOLD_MINUTES * 60 + SLEEP_INTERVAL_SECONDS}

\* ---- Python dicts as functions with a varying domain ----
EmptyDict == [x \in {} |-> None]
Get(d, k) == IF k \in DOMAIN d THEN d[k] ELSE None
Put(d, k, v) == [x \in (DOMAIN d) \cup {k} |-> IF x = k THEN v ELSE d[x]]
Pop(d, k) == [x \in (DOMAIN d) \ {k} |-> d[x]]

\* ---- snapshots: the routeInfo list of one response ----
Bus == [busPlate : Plates, status : Statuses]
BusInfos == {<<>>} \cup {<<b>> : b \in Bus}
Station(i, busInfo) == [staCode |-> StaCodes[i], busInfo |-> busInfo]
WellFormed == {<<Station(1, a), Station(2, b)>> : a \in BusInfos, b \in BusInfos}
\* stations that lack staCode, or hold a bus without busPlate or status
BadStations(i) ==
  { [staCode |-> Missing, busInfo |-> <<>>],
    Station(i, <<[busPlate |-> Missing, status |-> "0"]>>),
    Station(i, <<[busPlate |-> "MA1", status |-> Missing]>>) }
Malformed ==
  {<<s, Station(2, <<>>)>> : s \in BadStations(1)}
    \cup {<<Station(1, a), s>> : a \in BusInfos, s \in BadStations(2)}
\* routeInfo missing or empty: response_json.get("data", {}).get("routeInfo", [])
EmptyRouteInfo == <<>>

VARIABLES
  bus_station_status,    \* bus_plate -> (station_key -> status)
  last_seen_timestamps,  \* bus_plate -> timestamp
  db,                    \* rows of table bus_data, in insertion order
  now,                   \* the clock, seconds
  pc,                    \* "fetch" | "sleep": position in main's loop; "stopped": main has ended
  route_i,               \* index in ROUTES of the route handled next
  cycle,                 \* iterations of while True started
  fetched,               \* history: route -> "failed" | "fetched", for the routes of this cycle
  hist,                  \* history: per row of db, what the detector saw
  reported,              \* history: <<plate, key>> -> status last handled
  genuine0,              \* history: plate -> reported non-"0" -> "0" changes at index 0
  feed,                  \* history: route -> {its first snapshot}, while the feed repeats
  steady,                \* history: every pass so far repeated the route's first snapshot
  reaped,                \* history: plate -> "no" | "reaped" | "reaped0"
  seen_on,               \* history: plate -> routes whose snapshots listed the bus
  failed,                \* history: transitions whose append failed, still reported
  changes,               \* history: number of status changes the feed delivered
  cleaned,               \* history: <<arguments of the cleanup_old_data call of the last step>>
  unit,                  \* history: <<both dicts as the transition whose append failed in the last step found them>>
  data,                  \* get_travel_time: the rows its query returned
  trip_id,               \* get_travel_time: the trip_id column of data
  travel_times,          \* get_travel_time: travel_times_df before remove_outliers
  returned,              \* get_travel_time: <<the frame the last call returned>>
  csv,                   \* TRAVEL_TIME_DIR: route -> the frame in <route>.csv
  built,                 \* history: rows the store held when the file was written (0: no file, or not known)
  calls,                 \* history: calls of get_travel_time since the last insert, modulo 2
  column,                \* remove_outliers: the travel_time column it is given
  passes,                \* remove_outliers: what it returned, call after call
  recent                 \* get_recent_bus: <<the frame the last call returned>>

\* the variables of the dashboard side, src/data_processing.py
dashboard == <<data, trip_id, travel_times, returned, csv, built, calls>>

\* the variables of the functions that are checked on their own
derived == <<column, passes, recent>>

vars == <<bus_station_status, last_seen_timestamps, db, now, pc, route_i, cycle,
          fetched, hist, reported, genuine0, feed, steady, reaped, seen_on,
          failed, changes, cleaned, unit, dashboard, derived>>

\* ---- the arrival detector: process_response and its helpers ----

\* station_key = (route, station_code, station_index)
StationKey(route, station_code, station_index) == <<route, station_code, station_index>>
StationKeys == {StationKey(ROUTES[r], StaCodes[i], i - 1) : r \in DOMAIN ROUTES, i \in DOMAIN StaCodes}

\* bus_station_status.get(bus_plate, {}).get(station_key, None)
PreviousStatus(bss, bus_plate, station_key) ==
  IF bus_plate \in DOMAIN bss THEN Get(bss[bus_plate], station_key) ELSE None

\* line 168: the bus just left the start station
AtStartStation(station_index, previous_status, status) ==
  station_index = 0 /\ previous_status # status /\ status = "0"

\* a variant that records at the other stations whenever the status is "1"
AtOtherStation_NoCompare(station_index, previous_status, status) ==
  station_index > 0 /\ status = "1"

\* line 173: the bus arrived at a station after the start
AtOtherStation(station_index, previous_status, status) ==
  station_index > 0 /\ previous_status # status /\ status = "1"

\* a variant that keeps the old statuses of the bus
ClearBus_Keep(bss, bus_plate) == bss

\* line 170: bus_station_status.pop(bus_plate, None)
ClearBus(bss, bus_plate) == Pop(bss, bus_plate)

\* line 176: bus_station_status.setdefault(bus_plate, {})[station_key] = status
SetStatus(bss, bus_plate, station_key, status) ==
  Put(bss, bus_plate,
      Put(IF bus_plate \in DOMAIN bss THEN bss[bus_plate] ELSE EmptyDict, station_key, status))

\* lines 178-179: the timestamp moves only when the status changed
TouchLastSeen(lst, bus_plate, previous_status, status, t) ==
  IF previous_status # status THEN Put(lst, bus_plate, t) ELSE lst

\* record_bus_arrival: one INSERT and commit; W.failAt names the call of this
\* pass whose INSERT raises (0: none), and a raised INSERT adds no row
record_bus_arrival(W, route, bus_plate, station_code, station_index) ==
  IF W.calls + 1 = W.failAt
  THEN [W EXCEPT !.calls = @ + 1, !.raised = "append"]
  ELSE [W EXCEPT !.calls = @ + 1,
                 !.db = Append(@, [route |-> route, bus_plate |-> bus_plate,
                                   station_code |-> station_code, arrival_time |-> W.t,
                                   station_index |-> station_index])]

\* a variant that stores the new status although the append raised
AfterFailedAppend_Advance(W, bus_plate, station_key, status) ==
  [W EXCEPT !.bss = SetStatus(@, bus_plate, station_key, status)]

\* the exception of record_bus_arrival leaves process_response: lines 175-179
\* are not run for this bus
AfterFailedAppend(W, bus_plate, station_key, status) == W

\* body of the inner loop, lines 160-179, for one entry of busInfo
ProcessBus(W, route, station_code, station_index, bus) ==
  IF bus.busPlate = Missing \/ bus.status = Missing
  THEN [W EXCEPT !.raised = "malformed"]
  ELSE
    LET bus_plate == bus.busPlate
        status == bus.status
        station_key == StationKey(route, station_code, station_index)
        previous_status == PreviousStatus(W.bss, bus_plate, station_key)
        start == AtStartStation(station_index, previous_status, status)
        other == (~start) /\ AtOtherStation(station_index, previous_status, status)
        W1 == IF start THEN [W EXCEPT !.bss = ClearBus(@, bus_plate)] ELSE W
        W2 == IF start \/ other
              THEN record_bus_arrival(W1, route, bus_plate, station_code, station_index)
              ELSE W1
        transition == <<route, bus_plate, station_key, status>>
        was_reported == Get(W.reported, <<bus_plate, station_key>>)
        new_bss == SetStatus(W2.bss, bus_plate, station_key, status)
    IN IF W2.raised # "no"
       THEN [AfterFailedAppend(W2, bus_plate, station_key, status)
               EXCEPT !.failed = @ \cup {transition},
                      !.unit = IF W2.raised = "append"
                               THEN <<[bus_plate |-> bus_plate, station_index |-> station_index,
                                       bss |-> W.bss, lst |-> W.lst]>>
                               ELSE @,
                      !.seen_on = [@ EXCEPT ![bus_plate] = @ \cup {route}]]
       ELSE [W2 EXCEPT
               !.bss = new_bss,
               !.lst = TouchLastSeen(@, bus_plate, previous_status, status, W.t),
               !.hist = IF start \/ other
                        THEN Append(@, [previous_status |-> previous_status,
                                        status |-> status,
                                        was_reported |-> was_reported,
                                        before |-> IF bus_plate \in DOMAIN W.bss
                                                   THEN W.bss[bus_plate] ELSE EmptyDict,
                                        after |-> new_bss[bus_plate],
                                        reaped |-> W.reaped[bus_plate],
                                        retried |-> transition \in W.failed,
                                        first_pass |-> W.first_pass])
                        ELSE @,
               !.reported = Put(@, <<bus_plate, station_key>>, status),
               !.seen_on = [@ EXCEPT ![bus_plate] = @ \cup {route}],
               !.genuine0 = IF station_index = 0 /\ status = "0" /\ was_reported # "0"
                            THEN [@ EXCEPT ![bus_plate] = @ + 1] ELSE @,
               !.reaped = IF start THEN [@ EXCEPT ![bus_plate] = "no"] ELSE @,
               !.failed = {f \in @ : ~(/\ f[2] = bus_plate
                                        /\ f[3] = station_key
                                        /\ (start \/ other \/ f[4] # status))}]

RECURSIVE ProcessBuses(_, _, _, _, _)
\* line 159: for bus in station.get("busInfo", [])
ProcessBuses(W, route, station_code, station_index, buses) ==
  IF buses = <<>> \/ W.raised # "no" THEN W
  ELSE ProcessBuses(ProcessBus(W, route, station_code, station_index, Head(buses)),
                    route, station_code, station_index, Tail(buses))

RECURSIVE ProcessStations(_, _, _, _)
\* line 155: for station_index, station in enumerate(route_info)
ProcessStations(W, route, route_info, i) ==
  IF i > Len(route_info) \/ W.raised # "no" THEN W
  ELSE IF route_info[i].staCode = Missing THEN [W EXCEPT !.raised = "malformed"]
  ELSE ProcessStations(
         ProcessBuses(W, route, route_info[i].staCode, i - 1, route_info[i].busInfo),
         route, route_info, i + 1)

\* ---- the stale-state reaper ----

\* a variant that also reaps a bus seen exactly the threshold ago
IsStale_Inclusive(timestamp, current_timestamp) ==
  timestamp <= current_timestamp - STALE_THRESHOLD_MINUTES * 60

\* lines 188-192: timestamp < stale_timestamp
IsStale(timestamp, current_timestamp) ==
  timestamp < current_timestamp - STALE_THRESHOLD_MINUTES * 60

StaleBuses(lst, current_timestamp) ==
  {bus_plate \in DOMAIN lst : IsStale(lst[bus_plate], current_timestamp)}

\* a variant that forgets the timestamps but keeps the statuses
cleanup_old_data_KeepStatus(bss, lst, current_timestamp) ==
  [bss |-> bss,
   lst |-> [p \in (DOMAIN lst) \ StaleBuses(lst, current_timestamp) |-> lst[p]]]

\* cleanup_old_data: both dicts lose the stale buses
cleanup_old_data(bss, lst, current_timestamp) ==
  LET stale_buses == StaleBuses(lst, current_timestamp)
  IN [bss |-> [p \in (DOMAIN bss) \ stale_buses |-> bss[p]],
      lst |-> [p \in (DOMAIN lst) \ stale_buses |-> lst[p]]]

\* the snapshot lists the bus at the station of the key
Reports(route_info, bus_plate, station_key) ==
  \E i \in DOMAIN route_info :
    /\ i - 1 = station_key[3]
    /\ route_info[i].staCode = station_key[2]
    /\ \E j \in DOMAIN route_info[i].busInfo : route_info[i].busInfo[j].busPlate = bus_plate

\* the statuses a reaped bus held: "reaped0" when "0" was stored at an index-0 key
ReapedAs(bss, bus_plate) ==
  IF bus_plate \in DOMAIN bss
     /\ \E k \in DOMAIN bss[bus_plate] : k[3] = 0 /\ bss[bus_plate][k] = "0"
  THEN "reaped0" ELSE "reaped"

\* process_response: lines 149-181
process_response(W, route, route_info) ==
  IF route_info = <<>> THEN [W EXCEPT !.raised = "empty"]
  ELSE
    LET W1 == ProcessStations(W, route, route_info, 1)
        c == cleanup_old_data(W1.bss, W1.lst, W1.t)
        stale_buses == (DOMAIN W1.lst) \ (DOMAIN c.lst)
    IN IF W1.raised # "no" THEN W1
       ELSE [W1 EXCEPT
               !.bss = c.bss,
               !.lst = c.lst,
               !.reaped = [p \in Plates |-> IF p \in stale_buses
                                            THEN ReapedAs(W1.bss, p) ELSE @[p]],
               !.failed = {f \in @ : f[1] # route \/ Reports(route_info, f[2], f[3])},
               !.cleaned = <<[bss |-> W1.bss, lst |-> W1.lst, db |-> W1.db, at |-> W1.t]>>]

\* ---- main: the polling loop ----

\* number of bus entries of a snapshot whose status is not the one last handled
\* for that bus at that station
NumChanges(route, route_info) ==
  Cardinality({i \in DOMAIN route_info :
     /\ route_info[i].staCode # Missing
     /\ route_info[i].busInfo # <<>>
     /\ LET bus == route_info[i].busInfo[1]
            k == <<bus.busPlate, StationKey(route, route_info[i].staCode, i - 1)>>
        IN k \notin DOMAIN reported \/ reported[k] # bus.status})

\* the state process_response starts from, t seconds on the clock
Work(t, failAt, first_pass) ==
  [bss |-> bus_station_status, lst |-> last_seen_timestamps, db |-> db, t |-> t,
   calls |-> 0, failAt |-> failAt, raised |-> "no", hist |-> hist,
   reported |-> reported, genuine0 |-> genuine0, reaped |-> reaped, failed |-> failed,
   seen_on |-> seen_on,
   cleaned |-> <<>>, unit |-> <<>>, first_pass |-> first_pass]

Outcome(W) ==
  CASE W.raised = "no" -> "ok"
    [] W.raised = "empty" -> "empty"
    [] W.raised = "malformed" -> "error"
    [] W.raised = "append" -> "append_failed"

\* a variant in which a failed fetch ends the cycle
NextRoute_BreakOnError(how) ==
  IF how = "interrupted" THEN pc' = "stopped" /\ route_i' = route_i
  ELSE IF route_i = Len(ROUTES) \/ how = "fetch_failed"
  THEN pc' = "sleep" /\ route_i' = route_i
  ELSE pc' = "fetch" /\ route_i' = route_i + 1

\* line 213: the for-loop goes to the next route, however the try-block ended;
\* a KeyboardInterrupt is no Exception: lines 217-220 do not catch it and it
\* ends main
NextRoute(how) ==
  IF how = "interrupted" THEN pc' = "stopped" /\ route_i' = route_i
  ELSE IF route_i = Len(ROUTES)
  THEN pc' = "sleep" /\ route_i' = route_i
  ELSE pc' = "fetch" /\ route_i' = route_i + 1

\* lines 214-220, the fetch succeeded: process_response on its routeInfo
Poll(route_info, failAt, how) ==
  LET route == ROUTES[route_i]
      W == process_response(Work(now, failAt, feed[route] = {}), route, route_info)
      still == steady /\ Outcome(W) = "ok" /\ feed[route] \subseteq {route_info}
  IN /\ pc = "fetch"
     /\ changes + NumChanges(route, route_info) <= MaxChanges
     /\ changes' = changes + NumChanges(route, route_info)
     /\ Outcome(W) = (IF how = "interrupted" THEN "append_failed" ELSE how)
     /\ failAt > 0 => W.raised = "append"
     /\ bus_station_status' = W.bss
     /\ last_seen_timestamps' = W.lst
     /\ db' = W.db
     /\ hist' = W.hist
     /\ reported' = W.reported
     /\ genuine0' = W.genuine0
     /\ reaped' = W.reaped
     /\ seen_on' = W.seen_on
     /\ failed' = W.failed
     /\ cleaned' = W.cleaned
     /\ unit' = W.unit
     /\ fetched' = Put(fetched, route, "fetched")
     /\ steady' = still
     /\ feed' = IF still THEN [feed EXCEPT ![route] = {route_info}]
                ELSE [r \in DOMAIN feed |-> {}]
     /\ NextRoute(how)
     /\ UNCHANGED <<cycle, now, dashboard, derived>>

PollOk == \E s \in WellFormed : Poll(s, 0, "ok")

PollEmpty == Poll(EmptyRouteInfo, 0, "empty")

PollMalformed == \E s \in Malformed : Poll(s, 0, "error")

PollAppendFails ==
  \E s \in WellFormed \cup Malformed, failAt \in 1..2 :
    Poll(s, failAt, "append_failed")

\* lines 215, 217-218: get_api_response raises requests.RequestException
FetchFails ==
  /\ pc = "fetch"
  /\ fetched' = Put(fetched, ROUTES[route_i], "failed")
  /\ cleaned' = <<>>
  /\ unit' = <<>>
  /\ NextRoute("fetch_failed")
  /\ UNCHANGED <<bus_station_status, last_seen_timestamps, db, cycle, now, hist, reported,
                 genuine0, feed, steady, reaped, seen_on, failed, changes, dashboard, derived>>

\* line 221: time.sleep(SLEEP_INTERVAL_SECONDS), then the next cycle; the clock
\* moves by the sleep and by the time the requests of the cycle took
Sleep ==
  /\ pc = "sleep"
  /\ cycle < MaxCycles
  /\ \E d \in Pauses : now' = now + d
  /\ cycle' = cycle + 1
  /\ pc' = "fetch"
  /\ route_i' = 1
  /\ fetched' = EmptyDict
  /\ cleaned' = <<>>
  /\ unit' = <<>>
  /\ UNCHANGED <<bus_station_status, last_seen_timestamps, db, hist, reported,
                 genuine0, feed, steady, reaped, seen_on, failed, changes, dashboard, derived>>

\* the collector before its first fetch: nothing in memory
InitMemory ==
  /\ bus_station_status = EmptyDict
  /\ last_seen_timestamps = EmptyDict
  /\ pc = "fetch"
  /\ route_i = 1
  /\ cycle = 1
  /\ fetched = EmptyDict
  /\ hist = <<>>
  /\ reported = EmptyDict
  /\ genuine0 = [p \in Plates |-> 0]
  /\ feed = [r \in {ROUTES[i] : i \in DOMAIN ROUTES} |-> {}]
  /\ steady = TRUE
  /\ reaped = [p \in Plates |-> "no"]
  /\ seen_on = [p \in Plates |-> {}]
  /\ failed = {}
  /\ changes = 0
  /\ cleaned = <<>>
  /\ unit = <<>>

\* main before its first fetch: an empty table
InitLoop ==
  /\ InitMemory
  /\ db = <<>>
  /\ now = 0

\* no call of the dashboard yet, and no file in TRAVEL_TIME_DIR
InitDashboard ==
  /\ data = <<>>
  /\ trip_id = <<>>
  /\ travel_times = <<>>
  /\ returned = <<>>
  /\ csv = EmptyDict
  /\ built = 0
  /\ calls = 0

InitDerived ==
  /\ column = <<>>
  /\ passes = <<>>
  /\ recent = <<>>

Init == InitLoop /\ InitDashboard /\ InitDerived

Next == PollOk \/ PollEmpty \/ PollMalformed \/ PollAppendFails \/ FetchFails \/ Sleep

Spec == Init /\ [][Next]_vars

\* ---- the claims about the detector, the reaper and the loop ----

RouteSet == {ROUTES[i] : i \in DOMAIN ROUTES}
StaleSeconds == STALE_THRESHOLD_MINUTES * 60
\* rows of the store written for a bus at the start station
StartEvents(bus_plate) ==
  {i \in DOMAIN db : db[i].bus_plate = bus_plate /\ db[i].station_index = 0}
HistoryMatchesStore == Len(hist) = Len(db)

\* the bus has been reported on at most one route
OnOneRoute(bus_plate) == Cardinality(seen_on[bus_plate]) <= 1

\* C1: for every bus (taken here on the buses that one route alone reports),
\* the number of rows appended for it at station_index 0 equals the number of
\* times its status at index 0 was seen to change from a value other than "0"
\* (or from nothing) to "0", and no row at index 0 comes from a report of "0"
\* that repeats the "0" reported before.
C1_StartEventsCountGenuineChanges ==
  \A p \in Plates :
    OnOneRoute(p) =>
      /\ Cardinality(StartEvents(p)) = genuine0[p]
      /\ \A i \in StartEvents(p) : i \in DOMAIN hist /\ hist[i].was_reported # "0"

\* C2: a row with station_index > 0 is appended only by a report of "1" whose
\* stored status just before was not "1".
C2_LaterStationEventOnlyOnChangeToOne ==
  /\ HistoryMatchesStore
  /\ \A i \in DOMAIN db :
       db[i].station_index > 0 =>
         hist[i].status = "1" /\ hist[i].previous_status # "1"

\* C2 witness: a row at index > 0 was appended when the stored "0" changed to "1".
C2_Witness ==
  \E i \in DOMAIN db :
    /\ i \in DOMAIN hist
    /\ db[i].station_index > 0
    /\ hist[i].previous_status = "0"
    /\ hist[i].status = "1"

\* C3: right after a change to "0" at station_index 0 is handled, the statuses
\* stored for the bus are the index-0 key with "0" and nothing else, so a report
\* of "1" at any station after the start, of any route, is recorded.
C3_StartEventClearsBus ==
  /\ HistoryMatchesStore
  /\ \A i \in DOMAIN db :
       db[i].station_index = 0 =>
         /\ DOMAIN hist[i].after = {StationKey(db[i].route, db[i].station_code, 0)}
         /\ \A k \in DOMAIN hist[i].after : hist[i].after[k] = "0"
         /\ \A k \in StationKeys :
              k[3] > 0 => AtOtherStation(k[3], Get(hist[i].after, k), "1")

\* C3 witness: a bus that held "1" at a later station left the start station,
\* and its next report of "1" at a later station, where "1" was the status
\* reported last, was recorded.
C3_Witness ==
  \E i \in DOMAIN db, j \in DOMAIN db :
    /\ i < j /\ j \in DOMAIN hist
    /\ db[i].station_index = 0
    /\ db[j].bus_plate = db[i].bus_plate
    /\ db[j].station_index > 0
    /\ \E k \in DOMAIN hist[i].before : k[3] > 0 /\ hist[i].before[k] = "1"
    /\ hist[j].was_reported = "1"
    /\ hist[j].previous_status = None

\* C4: while every pass of every route repeats the route's first snapshot (and
\* no bus is reported on two routes), all rows of the store were appended in
\* the first pass, however long the repetition lasts.
C4_RepeatedSnapshotsAppendNothing ==
  (steady /\ \A p \in Plates : OnOneRoute(p)) =>
    \A i \in DOMAIN hist : hist[i].first_pass

\* C5: a transition whose append failed and that the feed still reports has not
\* been stored in memory: the stored status differs from the reported one, so
\* the next pass that handles the report detects it and calls the append again.
C5_FailedAppendIsRetried ==
  \A f \in failed :
    LET previous_status == PreviousStatus(bus_station_status, f[2], f[3])
    IN /\ previous_status # f[4]
       /\ \/ AtStartStation(f[3][3], previous_status, f[4])
          \/ AtOtherStation(f[3][3], previous_status, f[4])

\* C5 witness: the append of a transition failed, and a later pass recorded it.
C5_Witness ==
  /\ failed = {}
  /\ \E i \in DOMAIN hist : hist[i].retried

\* C6: a reaped bus for which no row at index 0 was appended since holds "0" at
\* no index-0 key: its report of "0" at index 0 cannot be taken for a repeat.
C6_ReapedBusReappearsFresh ==
  \A p \in Plates :
    reaped[p] # "no" =>
      \A k \in StationKeys :
        k[3] = 0 => PreviousStatus(bus_station_status, p, k) # "0"

\* C6 witness: a bus reaped while "0" was stored for it at index 0 reported "0"
\* at index 0 again, and a row was appended.
C6_Witness ==
  \E i \in DOMAIN hist :
    /\ i \in DOMAIN db
    /\ db[i].station_index = 0
    /\ hist[i].reaped = "reaped0"
    /\ hist[i].was_reported = "0"

\* C7: cleanup_old_data removes the statuses and the timestamp of exactly the
\* buses whose timestamp is more than 30 minutes old, leaves the other buses
\* as they were and appends nothing.
C7_CleanupRemovesExactlyStale ==
  cleaned # <<>> =>
    LET c == cleaned[1]
        stale == {p \in DOMAIN c.lst : c.at - c.lst[p] > StaleSeconds}
    IN /\ DOMAIN last_seen_timestamps = (DOMAIN c.lst) \ stale
       /\ \A p \in DOMAIN last_seen_timestamps : last_seen_timestamps[p] = c.lst[p]
       /\ DOMAIN bus_station_status = (DOMAIN c.bss) \ stale
       /\ \A p \in DOMAIN bus_station_status : bus_station_status[p] = c.bss[p]
       /\ db = c.db

\* C7 witness: one bus was reaped, another was kept with its statuses.
C7_Witness ==
  /\ cleaned # <<>>
  /\ \E p \in DOMAIN cleaned[1].bss : p \notin DOMAIN bus_station_status
  /\ \E q \in DOMAIN last_seen_timestamps : q \in DOMAIN bus_station_status

\* C8: a failed fetch changes neither the bus state nor the store and the loop
\* goes to the next route; when the cycle ends, every route has been handled.
C8_FetchFailureNotFatal ==
  /\ [][FetchFails =>
         /\ UNCHANGED <<bus_station_status, last_seen_timestamps, db>>
         /\ IF route_i < Len(ROUTES)
            THEN pc' = "fetch" /\ route_i' = route_i + 1
            ELSE pc' = "sleep"]_vars
  /\ [](pc = "sleep" => DOMAIN fetched = RouteSet)
  /\ [][pc = "sleep" => pc' = "fetch" /\ route_i' = 1 /\ cycle' = cycle + 1]_vars

\* C8 witness: the fetch of the first route failed, the second route was
\* processed and recorded an arrival, and the cycle ended.
C8_Witness ==
  /\ pc = "sleep"
  /\ fetched = [r \in RouteSet |-> IF r = ROUTES[1] THEN "failed" ELSE "fetched"]
  /\ \E i \in DOMAIN db : db[i].route = ROUTES[2] /\ db[i].arrival_time = now

\* C9: processing a malformed snapshot appends no row and leaves
\* bus_station_status and last_seen_timestamps as they were.
C9_MalformedSnapshotIsNoUpdate ==
  [][PollMalformed =>
       UNCHANGED <<bus_station_status, last_seen_timestamps, db>>]_vars

\* ---- get_travel_time: the query and the trip segmentation ----

\* number of rows of the store read by get_travel_time
MaxRows == 5
\* stations of the route whose rows the store holds, by station_index + 1
TripStations == <<"M1", "M2", "M3">>
\* the order of the plates as strings
PlateOrder == <<"MA1", "MB2">>
\* the arrivals the store is given: one bus at three stations, one at two
StoreArrivals == {<<"MA1", 0>>, <<"MA1", 1>>, <<"MA1", 2>>, <<"MB2", 0>>, <<"MB2", 1>>}
PlateRank(bus_plate) == CHOOSE i \in DOMAIN PlateOrder : PlateOrder[i] = bus_plate

\* ORDER BY bus_plate, arrival_time, station_index
RowBefore(a, b) ==
  \/ PlateRank(a.bus_plate) < PlateRank(b.bus_plate)
  \/ /\ a.bus_plate = b.bus_plate
     /\ \/ a.arrival_time < b.arrival_time
        \/ a.arrival_time = b.arrival_time /\ a.station_index < b.station_index

RECURSIVE InsertRow(_, _)
InsertRow(sorted, row) ==
  IF sorted = <<>> THEN <<row>>
  ELSE IF RowBefore(row, Head(sorted)) THEN <<row>> \o sorted
  ELSE <<Head(sorted)>> \o InsertRow(Tail(sorted), row)

RECURSIVE OrderRows(_)
OrderRows(rows) ==
  IF rows = <<>> THEN <<>>
  ELSE InsertRow(OrderRows(SubSeq(rows, 1, Len(rows) - 1)), rows[Len(rows)])

\* lines 346-354: the rows of the route of the last 30 days, ordered
Query(rows, route, current_time) ==
  LET one_month_ago == current_time - 30 * 24 * 3600
  IN OrderRows(SelectSeq(rows, LAMBDA r : r.route = route /\ r.arrival_time >= one_month_ago))

\* data.groupby("bus_plate")["station_index"].shift(1): the station_index of the
\* row before in the group of the plate, as a set; empty (NaN) for the first row
\* of the group
GroupShift(rows, i) ==
  LET before == {j \in 1..(i - 1) : rows[j].bus_plate = rows[i].bus_plate}
  IN {rows[j].station_index : j \in {j \in before : \A k \in before : k <= j}}

\* a variant that starts a new trip only when the station_index goes down
NewTrip_StrictlyLess(rows, i) ==
  \/ \E shifted \in GroupShift(rows, i) : rows[i].station_index < shifted
  \/ i = 1
  \/ i > 1 /\ rows[i].bus_plate # rows[i - 1].bus_plate

\* lines 361-363: new_trip; a comparison with NaN is False, and the plate of the
\* first row differs from the NaN that shift(1) gives it
NewTrip(rows, i) ==
  \/ \E shifted \in GroupShift(rows, i) : rows[i].station_index <= shifted
  \/ i = 1
  \/ i > 1 /\ rows[i].bus_plate # rows[i - 1].bus_plate

\* line 365: trip_id = new_trip.cumsum()
TripIds(rows) ==
  [i \in DOMAIN rows |-> Cardinality({j \in 1..i : NewTrip(rows, j)})]

\* get_station_name(station_code, station_index, full=True): the text
\* "[station_index] station_code-name", which the index and the code determine
get_station_name(station_code, station_index) == <<station_index, station_code>>

\* the rows of the group of trip t, in the order of the frame
TripGroup(rows, ids, t) ==
  LET I == {i \in DOMAIN rows : ids[i] = t}
  IN [k \in 1..Cardinality(I) |->
        rows[CHOOSE i \in I : Cardinality({j \in I : j <= i}) = k]]

\* np.triu_indices(n, k=1): the pairs <<i, j>> with i < j, row by row
TriuIndices(n) ==
  LET pairs == {p \in (1..n) \X (1..n) : p[1] < p[2]}
      pos(p) == Cardinality({q \in pairs :
                               q[1] < p[1] \/ (q[1] = p[1] /\ q[2] <= p[2])})
  IN [k \in 1..Cardinality(pairs) |-> CHOOSE p \in pairs : pos(p) = k]

\* a variant that pairs each event with the next one only
calculate_travel_times_Adjacent(group) ==
  [k \in 1..(IF Len(group) = 0 THEN 0 ELSE Len(group) - 1) |->
     [start_name |-> get_station_name(group[k].station_code, group[k].station_index),
      end_name |-> get_station_name(group[k + 1].station_code, group[k + 1].station_index),
      travel_time |-> group[k + 1].arrival_time - group[k].arrival_time]]

\* lines 368-381: one row per pair of the upper triangle
calculate_travel_times(group) ==
  LET ij == TriuIndices(Len(group))
  IN [k \in DOMAIN ij |->
        LET i == ij[k][1]
            j == ij[k][2]
        IN [start_name |-> get_station_name(group[i].station_code, group[i].station_index),
            end_name |-> get_station_name(group[j].station_code, group[j].station_index),
            travel_time |-> group[j].arrival_time - group[i].arrival_time]]

RECURSIVE ApplyByTrip(_, _, _, _)
\* lines 383-385: data.groupby("trip_id").apply(calculate_travel_times), the
\* groups in the order of trip_id
ApplyByTrip(rows, ids, t, last) ==
  IF t > last THEN <<>>
  ELSE calculate_travel_times(TripGroup(rows, ids, t)) \o ApplyByTrip(rows, ids, t + 1, last)

RECURSIVE Sum(_)
Sum(xs) == IF xs = <<>> THEN 0 ELSE Head(xs) + Sum(Tail(xs))
SumSq(xs) == Sum([k \in DOMAIN xs |-> xs[k] * xs[k]])

\* line 390: travel_time <= 7200
Capped(xs) == SelectSeq(xs, LAMBDA x : x <= 7200)

\* lines 392-397: mean - 3 std <= x <= mean + 3 std over the values xs, std
\* with n - 1 in the denominator.  With S the sum and Q = n * sum of squares - S^2
\* the test |x - S/n| <= 3 sqrt(Q / (n (n-1))) is (n-1) (n x - S)^2 <= 9 n Q.
\* The std of fewer than two values is NaN and a comparison with NaN is False.
Within3Sigma(x, xs) ==
  LET n == Len(xs)
      S == Sum(xs)
      Q == n * SumSq(xs) - S * S
  IN n >= 2 /\ (n - 1) * (n * x - S) * (n * x - S) <= 9 * n * Q

\* lines 388-398, on the travel_time column of one (start_name, end_name) group
remove_outliers(xs) ==
  LET group == Capped(xs)
  IN SelectSeq(group, LAMBDA x : Within3Sigma(x, group))

\* the travel_time column of the rows of the frame from start_name to end_name
PairGroup(frame, start_name, end_name) ==
  LET g == SelectSeq(frame, LAMBDA r : r.start_name = start_name /\ r.end_name = end_name)
  IN [k \in DOMAIN g |-> g[k].travel_time]

\* lines 400-404: groupby(["start_name", "end_name"]).apply(remove_outliers);
\* a row stays when its travel_time stays in its group (the rows are kept here
\* in the order of the frame: no reader depends on the order of the groups)
RemoveOutliersByPair(frame) ==
  SelectSeq(frame, LAMBDA r :
    LET kept == remove_outliers(PairGroup(frame, r.start_name, r.end_name))
    IN \E k \in DOMAIN kept : kept[k] = r.travel_time)

\* get_travel_time(conn, route) with the files of TRAVEL_TIME_DIR: the frame of
\* <route>.csv when the file exists (to_csv and read_csv give back the same
\* names and whole seconds), else the frame built from the store, which is
\* written to the file
get_travel_time(files, rows, route, current_time) ==
  IF route \in DOMAIN files
  THEN [data |-> <<>>, trip_id |-> <<>>, travel_times |-> <<>>,
        returned |-> files[route], csv |-> files]
  ELSE LET d == Query(rows, route, current_time)
           ids == TripIds(d)
           travel_times_df == ApplyByTrip(d, ids, 1, IF ids = <<>> THEN 0 ELSE ids[Len(ids)])
           out == RemoveOutliersByPair(travel_times_df)
       IN [data |-> d, trip_id |-> ids, travel_times |-> travel_times_df,
           returned |-> out, csv |-> Put(files, route, out)]

\* the store gets a row: the clock has moved by a second or not at all
StoreInsert ==
  /\ Len(db) < MaxRows
  /\ \E a \in StoreArrivals, d \in {0, 1} :
       /\ now' = now + d
       /\ db' = Append(db, [route |-> ROUTES[1], bus_plate |-> a[1],
                            station_code |-> TripStations[a[2] + 1],
                            arrival_time |-> now + d, station_index |-> a[2]])
  /\ data' = <<>>
  /\ trip_id' = <<>>
  /\ travel_times' = <<>>
  /\ returned' = <<>>
  /\ calls' = 0
  /\ UNCHANGED <<bus_station_status, last_seen_timestamps, pc, route_i, cycle, fetched,
                 hist, reported, genuine0, feed, steady, reaped, seen_on, failed,
                 changes, cleaned, unit, csv, built, derived>>

\* a call of get_travel_time(conn, route) of the dashboard
CallGetTravelTime ==
  \E r \in {get_travel_time(csv, db, ROUTES[1], now)} :
     /\ data' = r.data
     /\ trip_id' = r.trip_id
     /\ travel_times' = r.travel_times
     /\ returned' = <<r.returned>>
     /\ csv' = r.csv
     /\ built' = IF ROUTES[1] \in DOMAIN csv THEN built ELSE Len(db)
     /\ calls' = 1 - calls
     /\ UNCHANGED <<bus_station_status, last_seen_timestamps, db, now, pc, route_i, cycle,
                    fetched, hist, reported, genuine0, feed, steady, reaped, seen_on,
                    failed, changes, cleaned, unit, derived>>

\* lines 343-345: the file of the route is there
ReadFile == ROUTES[1] \in DOMAIN csv /\ CallGetTravelTime

\* lines 346-406: no file yet, and the store holds rows of the route
BuildFile ==
  /\ ROUTES[1] \notin DOMAIN csv
  /\ Query(db, ROUTES[1], now) # <<>>
  /\ CallGetTravelTime

GetTravelTime == ReadFile \/ BuildFile

TripNext == StoreInsert \/ GetTravelTime

SpecTrips == Init /\ [][TripNext]_vars

\* the rows are ordered by (bus_plate, arrival_time, station_index)
Ordered(rows) ==
  \A i \in DOMAIN rows : i > 1 => ~RowBefore(rows[i], rows[i - 1])

\* C10: over the ordered rows, trip_id never decreases and goes up by one
\* exactly at a row whose station_index is <= that of the row before of the
\* same plate or whose plate differs from the plate of the row before (the
\* first row opens trip 1); within a trip all rows have one plate and
\* station_index strictly increases; the indices [0,1,2,0,1] of one plate give
\* the trips {0,1,2} and {0,1}.
C10_TripSegmentation ==
  /\ DOMAIN trip_id = DOMAIN data
  /\ Ordered(data)
  /\ \A i \in DOMAIN data :
       IF i = 1 THEN trip_id[i] = 1
       ELSE LET boundary == \/ data[i].bus_plate # data[i - 1].bus_plate
                            \/ data[i].station_index <= data[i - 1].station_index
            IN trip_id[i] = trip_id[i - 1] + (IF boundary THEN 1 ELSE 0)
  /\ \A i \in DOMAIN data, j \in DOMAIN data :
       (i < j /\ trip_id[i] = trip_id[j]) =>
         /\ data[i].bus_plate = data[j].bus_plate
         /\ data[i].station_index < data[j].station_index
  /\ ([i \in DOMAIN data |-> data[i].station_index] = <<0, 1, 2, 0, 1>>
      /\ \A i \in DOMAIN data : data[i].bus_plate = data[1].bus_plate)
       => trip_id = <<1, 1, 1, 2, 2>>

\* C10 witness: get_travel_time has read the indices [0,1,2,0,1] of one plate.
C10_Witness ==
  /\ [i \in DOMAIN data |-> data[i].station_index] = <<0, 1, 2, 0, 1>>
  /\ \A i \in DOMAIN data : data[i].bus_plate = data[1].bus_plate
  /\ trip_id = <<1, 1, 1, 2, 2>>

\* pairs of rows of data of one trip, the earlier row first
TripPairs ==
  {p \in (DOMAIN data) \X (DOMAIN data) : p[1] < p[2] /\ trip_id[p[1]] = trip_id[p[2]]}

\* place of a pair among the pairs, counted trip by trip and row by row
PairRank(p) ==
  Cardinality({q \in TripPairs : q[1] < p[1] \/ (q[1] = p[1] /\ q[2] <= p[2])})

\* C11: travel_times_df has exactly one row for each pair (i, j), i < j, of
\* events of one trip: n(n-1)/2 rows for a trip of n events and none for a trip
\* of one event; its start is the station of event i, its end the station of
\* event j, its seconds arrival_time(j) - arrival_time(i); a trip of one
\* index-0 and one index-1 event gives the single row with the difference of
\* the two arrival times.
C11_OneSamplePerOrderedPair ==
  /\ Len(travel_times) = Cardinality(TripPairs)
  /\ \A p \in TripPairs :
       LET row == travel_times[PairRank(p)]
       IN /\ row.start_name = get_station_name(data[p[1]].station_code, data[p[1]].station_index)
          /\ row.end_name = get_station_name(data[p[2]].station_code, data[p[2]].station_index)
          /\ row.travel_time = data[p[2]].arrival_time - data[p[1]].arrival_time
  /\ \A t \in {trip_id[i] : i \in DOMAIN trip_id} :
       LET n == Cardinality({i \in DOMAIN data : trip_id[i] = t})
       IN 2 * Cardinality({p \in TripPairs : trip_id[p[1]] = t}) = n * (n - 1)
  /\ (Len(data) = 2 /\ trip_id = <<1, 1>>
      /\ data[1].station_index = 0 /\ data[2].station_index = 1)
       => /\ Len(travel_times) = 1
          /\ travel_times[1].travel_time = data[2].arrival_time - data[1].arrival_time

\* C11 witness: a trip of three events next to a trip of one event gave three
\* rows, one of them from the first to the third event, a second apart.
C11_Witness ==
  /\ Len(data) = 4
  /\ trip_id = <<1, 1, 1, 2>>
  /\ Len(travel_times) = 3
  /\ \E k \in DOMAIN travel_times :
       /\ travel_times[k].start_name = get_station_name(TripStations[1], 0)
       /\ travel_times[k].end_name = get_station_name(TripStations[3], 2)
       /\ travel_times[k].travel_time = 1

\* ---- remove_outliers on its own ----

\* number of equal travel times in a group
MaxSame == 10
\* number of calls of remove_outliers in a row
MaxPasses == 2

RECURSIVE Repeat(_, _)
Repeat(x, n) == IF n = 0 THEN <<>> ELSE <<x>> \o Repeat(x, n - 1)

\* travel_time columns of one (start_name, end_name) group, in seconds: some
\* rides of ten minutes, at most one of eleven, one of thirteen and one of
\* more than two hours
Groups ==
  {Repeat(600, a) \o Repeat(660, b) \o Repeat(780, c) \o Repeat(7260, d) :
     a \in 0..MaxSame, b \in 0..1, c \in 0..1, d \in 0..1}

InitOutliers ==
  /\ InitLoop /\ InitDashboard
  /\ column \in Groups
  /\ passes = <<>>
  /\ recent = <<>>

\* remove_outliers(column), then remove_outliers on what it returned
RemoveOutliers ==
  /\ Len(passes) < MaxPasses
  /\ passes' = Append(passes, remove_outliers(IF passes = <<>> THEN column
                                              ELSE passes[Len(passes)]))
  /\ UNCHANGED <<bus_station_status, last_seen_timestamps, db, now, pc, route_i, cycle,
                 fetched, hist, reported, genuine0, feed, steady, reaped, seen_on,
                 failed, changes, cleaned, unit, dashboard, column, recent>>

SpecOutliers == InitOutliers /\ [][RemoveOutliers]_vars

\* C12: remove_outliers applied to what remove_outliers returned gives it back
\* unchanged.
C12_RemoveOutliersIdempotent ==
  \A k \in DOMAIN passes : k > 1 => passes[k] = passes[k - 1]

\* ---- get_recent_bus and get_wait_time ----

\* A float NaN or a NaT is the empty set and a value v is {v}.
NaN == {}

\* k <= mean + c * std, for an integer k and an integer c, of n >= 2 values
\* with sum S and Q = n * sum of squares - S^2 (as in Within3Sigma):
\* std^2 = Q / (n (n-1)) and mean = S / n
AtMostMeanPlus(k, n, S, Q, c) ==
  LET far == (n - 1) * (k * n - S) * (k * n - S)
  IN IF c < 0 THEN k * n <= S /\ c * c * Q * n <= far
     ELSE k * n <= S \/ far <= c * c * Q * n

\* mean(xs) + c * std(xs) in whole seconds, as strftime("%H:%M:%S") cuts it
MeanPlus(xs, c) ==
  LET n == Len(xs)
      S == Sum(xs)
      Q == n * SumSq(xs) - S * S
      max == CHOOSE x \in {xs[i] : i \in DOMAIN xs} : \A i \in DOMAIN xs : xs[i] <= x
      min == CHOOSE x \in {xs[i] : i \in DOMAIN xs} : \A i \in DOMAIN xs : x <= xs[i]
      \* std <= max - min
      lo == IF c < 0 THEN S \div n + c * (max - min) - 1 ELSE S \div n
      hi == IF c < 0 THEN S \div n ELSE S \div n + c * (max - min) + 1
  IN CHOOSE k \in lo..hi : AtMostMeanPlus(k, n, S, Q, c) /\ ~AtMostMeanPlus(k + 1, n, S, Q, c)

\* a variant with a band of one std
Band_OneSigma(arrival_time, xs) ==
  IF Len(xs) < 2 THEN <<NaN, NaN>>
  ELSE <<{arrival_time + MeanPlus(xs, -1)}, {arrival_time + MeanPlus(xs, 1)}>>

\* lines 259-265: earliest and latest arrival, 2 std around the mean; the std
\* of one value is NaN
Band(arrival_time, xs) ==
  IF Len(xs) < 2 THEN <<NaN, NaN>>
  ELSE <<{arrival_time + MeanPlus(xs, -2)}, {arrival_time + MeanPlus(xs, 2)}>>

\* lines 245-271: three NaN when travel_df has no row from the station of the
\* bus to the wait station, else mean / 60 (as the fraction <<sum, 60 n>>), the
\* average, the earliest and the latest arrival
get_wait_time(row, travel_df, wait_station_name) ==
  LET curr_station_name == get_station_name(row.station_code, row.station_index)
      xs == PairGroup(travel_df, curr_station_name, wait_station_name)
  IN IF xs = <<>> THEN <<NaN, NaN, NaN>>
     ELSE <<{<<Sum(xs), 60 * Len(xs)>>},
            {row.arrival_time + Sum(xs) \div Len(xs)}>>
          \o Band(row.arrival_time, xs)

\* lines 228-231: the plates of the buses at the stations up to the wait
\* station; Missing is among them when bus["busPlate"] raises KeyError
BusPlates(route_info, station_index) ==
  UNION {{route_info[i].busInfo[j].busPlate : j \in DOMAIN route_info[i].busInfo} :
           i \in {i \in DOMAIN route_info : i - 1 <= station_index}}

\* lines 233-241: the rows of the last two hours of a plate
RecentRows(rows, bus_plate, current_time) ==
  {i \in DOMAIN rows : /\ rows[i].bus_plate = bus_plate
                       /\ rows[i].arrival_time >= current_time - 2 * 3600}

\* ORDER BY arrival_time DESC and drop_duplicates(subset="bus_plate"): a newest
\* row of the plate (which one, among rows of the same second, SQL leaves open)
Newest(rows, bus_plate, current_time) ==
  {i \in RecentRows(rows, bus_plate, current_time) :
     \A j \in RecentRows(rows, bus_plate, current_time) :
       rows[j].arrival_time <= rows[i].arrival_time}

\* get_station_name(station_code, station_index): "station_code-name", with
\* the mark of the start station at index 0
get_short_station_name(station_code, station_index) == <<station_code, station_index = 0>>

\* round(1) of the fraction f[1] / f[2], in tenths, halves to the even tenth
RoundTenths(f) ==
  LET q == (10 * f[1]) \div f[2]
      r == (10 * f[1]) % f[2]
  IN IF 2 * r < f[2] THEN q
     ELSE IF 2 * r > f[2] THEN q + 1
     ELSE IF q % 2 = 0 THEN q ELSE q + 1

\* strftime("%H:%M:%S"): the time of day, the clock counting from midnight
TimeOfDay(t) == t % (24 * 3600)

\* lines 282-310: one row of the frame that get_recent_bus returns
FormatRow(row, wait) ==
  [bus_plate |-> row.bus_plate,
   station_name |-> get_short_station_name(row.station_code, row.station_index),
   wait_time |-> {RoundTenths(f) : f \in wait[1]},
   average_arrival_time |-> {TimeOfDay(t) : t \in wait[2]},
   earliest_arrival_time |-> {TimeOfDay(t) : t \in wait[3]},
   latest_arrival_time |-> {TimeOfDay(t) : t \in wait[4]}]

\* get_recent_bus(conn, route, station_info) with the response of the feed
\* (fetched: whether get_api_response returned) and pick, the newest row taken
\* for each plate.  The frames are dicts by plate.  data.apply(get_wait_time,
\* axis=1, result_type="expand") builds a frame from the returned tuples: tuples
\* of three and of four values make it raise, and three columns cannot be set
\* to the four names; every exception ends in the empty frame of line 312.
get_recent_bus(files, rows, route, station_info, fetched_ok, route_info, current_time, pick) ==
  LET station_code == station_info[1]
      station_index == station_info[2]
      wait_station_name == get_station_name(station_code, station_index)
      travel == get_travel_time(files, rows, route, current_time)
      travel_df == travel.returned
      bus_plates == BusPlates(route_info, station_index)
      found == {p \in bus_plates \ {Missing} : Newest(rows, p, current_time) # {}}
      frame == [p \in found |-> rows[pick[p]]]
      waits == [p \in found |-> get_wait_time(frame[p], travel_df, wait_station_name)]
      raised == \/ ~fetched_ok
                \/ Missing \in bus_plates
                \/ \E p \in found : Len(waits[p]) # 4
      reached == fetched_ok /\ Missing \notin bus_plates
  IN [travel |-> travel,
      wait_station_name |-> wait_station_name,
      data |-> IF reached THEN frame ELSE EmptyDict,
      waits |-> IF reached THEN waits ELSE EmptyDict,
      result |-> IF raised THEN EmptyDict
                 ELSE [p \in found |-> FormatRow(frame[p], waits[p])]]

\* ---- get_recent_bus on a store, a travel-time file and a response ----

\* the wait station of the call
WaitStations == {<<StaCodes[i], i - 1>> : i \in DOMAIN StaCodes}

\* travel_time columns of the file, from the first to the second station: no
\* row, or rows that remove_outliers can have left
TravelColumns == {<<>>, <<120, 120>>, <<100, 140>>, <<100, 120, 140>>}
TravelFrame(xs) ==
  [k \in DOMAIN xs |-> [start_name |-> get_station_name(StaCodes[1], 0),
                        end_name |-> get_station_name(StaCodes[2], 1),
                        travel_time |-> xs[k]]]

\* the rows of a bus in the store: none, the start, or the start and the next
\* station a minute later or in the same second
ArrivalRow(bus_plate, station_index, t) ==
  [route |-> ROUTES[1], bus_plate |-> bus_plate, station_code |-> StaCodes[station_index + 1],
   arrival_time |-> t, station_index |-> station_index]
BusRows(bus_plate) ==
  { <<>>,
    <<ArrivalRow(bus_plate, 0, 0)>>,
    <<ArrivalRow(bus_plate, 0, 0), ArrivalRow(bus_plate, 1, 60)>>,
    <<ArrivalRow(bus_plate, 0, 60), ArrivalRow(bus_plate, 1, 60)>> }

\* the responses of the feed: a bus or none at each station (the statuses are
\* not read), a first station that is malformed, no routeInfo
WaitSnapshots ==
  {s \in WellFormed : \A i \in DOMAIN s : \A j \in DOMAIN s[i].busInfo : s[i].busInfo[j].status = "1"}
    \cup {s \in Malformed : s[2] = Station(2, <<>>)}
    \cup {EmptyRouteInfo}

\* the time of the call: a minute or two hours after the first row
CallTimes == {60, 7260}

InitWait ==
  /\ InitMemory
  /\ \E a \in BusRows("MA1"), b \in BusRows("MB2") : db = a \o b
  /\ now \in CallTimes
  /\ data = <<>> /\ trip_id = <<>> /\ travel_times = <<>> /\ returned = <<>>
  /\ \E xs \in TravelColumns : csv = Put(EmptyDict, ROUTES[1], TravelFrame(xs))
  /\ built = 0 /\ calls = 0
  /\ InitDerived

\* a call of get_recent_bus(conn, route, station_info) of the dashboard
GetRecentBus ==
  \E route_info \in WaitSnapshots,
     station_info \in WaitStations,
     fetched_ok \in BOOLEAN,
     pick \in [Plates -> (DOMAIN db) \cup {0}] :
    LET r == get_recent_bus(csv, db, ROUTES[1], station_info, fetched_ok, route_info, now, pick)
    IN /\ \A p \in Plates : IF Newest(db, p, now) = {} THEN pick[p] = 0
                            ELSE pick[p] \in Newest(db, p, now)
       /\ ROUTES[1] \in DOMAIN csv \/ Query(db, ROUTES[1], now) # <<>>
       /\ data' = r.travel.data
       /\ trip_id' = r.travel.trip_id
       /\ travel_times' = r.travel.travel_times
       /\ returned' = <<r.travel.returned>>
       /\ csv' = r.travel.csv
       /\ built' = IF ROUTES[1] \in DOMAIN csv THEN built ELSE Len(db)
       /\ calls' = 1 - calls
       /\ recent' = <<[wait_station_name |-> r.wait_station_name,
                       travel_df |-> r.travel.returned,
                       data |-> r.data, waits |-> r.waits, result |-> r.result]>>
       /\ UNCHANGED <<bus_station_status, last_seen_timestamps, db, now, pc, route_i, cycle,
                      fetched, hist, reported, genuine0, feed, steady, reaped, seen_on,
                      failed, changes, cleaned, unit, column, passes>>

SpecWait == InitWait /\ [][GetRecentBus]_vars

\* the travel times of the file from the station of the row to the wait station
\* of the last call of get_recent_bus
StatsOf(row) ==
  PairGroup(recent[1].travel_df,
            get_station_name(row.station_code, row.station_index),
            recent[1].wait_station_name)

\* C13: for a bus last seen at time t at a station with travel times of mean m
\* and standard deviation s to the wait station, get_wait_time returns the
\* arrival t + m, the earliest arrival t + m - 2s and the latest t + m + 2s
\* (checked where m and s are whole seconds); with m = 120 and s = 20 these
\* are t + 120, t + 80 and t + 160.
C13_WaitTimeBand ==
  recent # <<>> =>
    \A p \in DOMAIN recent[1].waits :
      LET row == recent[1].data[p]
          wait == recent[1].waits[p]
          t == row.arrival_time
          xs == StatsOf(row)
          n == Len(xs)
          S == Sum(xs)
          Q == n * SumSq(xs) - S * S
      IN n >= 2 =>
           /\ Len(wait) = 4
           /\ \A m \in 0..150, s \in 0..50 :
                (n * m = S /\ s * s * n * (n - 1) = Q) =>
                  /\ wait[2] = {t + m}
                  /\ wait[3] = {t + m - 2 * s}
                  /\ wait[4] = {t + m + 2 * s}
           /\ (n * 120 = S /\ 20 * 20 * n * (n - 1) = Q) =>
                /\ wait[2] = {t + 120}
                /\ wait[3] = {t + 80}
                /\ wait[4] = {t + 160}

\* C13 witness: a bus seen at the start at second 60, travel times of mean 120
\* and standard deviation 20: arrival at 180, between 140 and 220.
C13_Witness ==
  /\ recent # <<>>
  /\ \E p \in DOMAIN recent[1].waits :
       /\ recent[1].data[p].arrival_time = 60
       /\ StatsOf(recent[1].data[p]) = <<100, 120, 140>>
       /\ recent[1].waits[p][2] = {180}
       /\ recent[1].waits[p][3] = {140}
       /\ recent[1].waits[p][4] = {220}
       /\ p \in DOMAIN recent[1].result
       /\ recent[1].result[p].earliest_arrival_time = {140}

\* C14: the frame that get_recent_bus returns holds exactly the candidate buses
\* that have travel times from their station to the wait station, each with
\* its prediction; a candidate without them is left out and nothing else
\* changes.
C14_BusWithoutStatisticsIsLeftOut ==
  recent # <<>> =>
    /\ DOMAIN recent[1].result = {p \in DOMAIN recent[1].data : StatsOf(recent[1].data[p]) # <<>>}
    /\ \A p \in DOMAIN recent[1].result :
         /\ recent[1].result[p].wait_time # NaN
         /\ recent[1].result[p].average_arrival_time # NaN

\* ---- get_travel_time called again and again while the store grows ----

\* a store that holds the first stops of a bus, a second apart
FirstRows ==
  <<[route |-> ROUTES[1], bus_plate |-> "MA1", station_code |-> TripStations[1],
     arrival_time |-> 0, station_index |-> 0],
    [route |-> ROUTES[1], bus_plate |-> "MA1", station_code |-> TripStations[2],
     arrival_time |-> 1, station_index |-> 1],
    [route |-> ROUTES[1], bus_plate |-> "MA1", station_code |-> TripStations[3],
     arrival_time |-> 2, station_index |-> 2]>>

\* the dashboard has called get_travel_time once on that store: the file of
\* the route is written
InitCache ==
  /\ InitMemory
  /\ db = FirstRows
  /\ now = 2
  /\ data = <<>> /\ trip_id = <<>> /\ travel_times = <<>> /\ returned = <<>>
  /\ csv = get_travel_time(EmptyDict, FirstRows, ROUTES[1], 2).csv
  /\ built = Len(FirstRows)
  /\ calls = 0
  /\ InitDerived

\* with the file there, a call of get_travel_time runs lines 343-345 only
CacheNext == StoreInsert \/ ReadFile

\* the collector appends rows (up to MaxRows) and the dashboard keeps calling
\* get_travel_time
SpecCache ==
  /\ InitCache
  /\ [][CacheNext]_vars
  /\ WF_vars(ReadFile)

\* C15: rows of the route that were appended to the store (here: the rows up
\* to the last one the store gets) are, after some later call of
\* get_travel_time, part of the store that the returned frame was built from:
\* the file written once is not returned forever.
C15_CacheIsRefreshed ==
  (Len(db) = MaxRows) ~> (returned # <<>> /\ built = MaxRows)

\* ---- main asked to stop ----

\* SIGINT while main waits for a response or sleeps: KeyboardInterrupt leaves
\* the while-loop at once (main installs no handler and has no stop flag)
Interrupt ==
  /\ pc \in {"fetch", "sleep"}
  /\ pc' = "stopped"
  /\ cleaned' = <<>>
  /\ unit' = <<>>
  /\ UNCHANGED <<bus_station_status, last_seen_timestamps, db, now, route_i, cycle, fetched,
                 hist, reported, genuine0, feed, steady, reaped, seen_on, failed, changes,
                 dashboard, derived>>

\* SIGINT inside process_response, while record_bus_arrival runs its INSERT:
\* the statements before it have run, the row is not written
PollInterrupted ==
  \E s \in WellFormed, failAt \in 1..2 : Poll(s, failAt, "interrupted")

StopNext == Next \/ Interrupt \/ PollInterrupted

SpecStop == Init /\ [][StopNext]_vars

\* C16: when main is asked to stop while a cycle is in flight (a route of the
\* cycle has been handled), it ends only after every route of the cycle has
\* been handled, and no detected transition is left without its row.
C16_StopCompletesCycle ==
  (pc = "stopped" /\ DOMAIN fetched # {}) =>
    /\ DOMAIN fetched = RouteSet
    /\ failed = {}

\* ---- the failed append and the state in memory ----

\* C17: whenever the append of a detected transition failed, bus_station_status
\* and last_seen_timestamps are exactly as they were before that transition was
\* handled, at station_index 0 as well as at the later stations
C17_FailedAppendLeavesStateAsBefore ==
  unit # <<>> =>
    /\ bus_station_status = unit[1].bss
    /\ last_seen_timestamps = unit[1].lst

\* ---- the order of the stations of a snapshot ----

RECURSIVE ProcessStationsInOrder(_, _, _, _)
\* the loop of line 155 taking the stations of route_info in the given order of
\* their positions; station_index stays the position in route_info
ProcessStationsInOrder(W, route, route_info, order) ==
  IF order = <<>> \/ W.raised # "no" THEN W
  ELSE LET i == Head(order)
       IN IF route_info[i].staCode = Missing THEN [W EXCEPT !.raised = "malformed"]
          ELSE ProcessStationsInOrder(
                 ProcessBuses(W, route, route_info[i].staCode, i - 1, route_info[i].busInfo),
                 route, route_info, Tail(order))

\* the orders in which the stations of a snapshot of two stations can be taken
FeedOrder == <<1, 2>>
OtherOrder == <<2, 1>>

\* the rows a pass appended to the rows the store held
Appended(W) == {W.db[k] : k \in (Len(db) + 1)..Len(W.db)}

\* C18: for every snapshot and every prior state, processing the stations in
\* any order appends the same set of rows and ends in the same
\* bus_station_status
C18_StationOrderIsIrrelevant ==
  pc = "fetch" =>
    \A s \in WellFormed :
      LET W == Work(now, 0, FALSE)
          a == ProcessStationsInOrder(W, ROUTES[route_i], s, FeedOrder)
          b == ProcessStationsInOrder(W, ROUTES[route_i], s, OtherOrder)
      IN /\ a = ProcessStations(W, ROUTES[route_i], s, 1)
         /\ Appended(a) = Appended(b)
         /\ a.bss = b.bss

\* ---- the buses the reaper can see ----

\* C20: after every pass, every bus_plate that has an entry in
\* bus_station_status also has one in last_seen_timestamps, whatever the
\* status values of the feed
C20_TrackedBusHasTimestamp ==
  DOMAIN bus_station_status \subseteq DOMAIN last_seen_timestamps

\* ---- a bus that left the feed ----

\* the clock is followed up to Horizon: every timestamp stored in the first
\* cycle, at clock 0, is stale from then on, and a later reading of the clock
\* decides nothing else
Horizon == STALE_THRESHOLD_MINUTES * 60 + SLEEP_INTERVAL_SECONDS

\* snapshots that list one bus, under one station
Sightings ==
  {<<Station(1, <<[busPlate |-> "MA1", status |-> st]>>), Station(2, <<>>)>> : st \in Statuses}
    \cup {<<Station(1, <<>>), Station(2, <<[busPlate |-> "MA1", status |-> st]>>)>> : st \in Statuses}

\* the snapshot of a route on which no bus runs: its stations, each with an
\* empty busInfo
Quiet == <<Station(1, <<>>), Station(2, <<>>)>>

\* the feed lists the bus in the first cycle only
PollSighting == cycle = 1 /\ \E s \in Sightings : Poll(s, 0, "ok")

\* a response that lists no bus; process_response runs to cleanup_old_data
PollQuiet == Poll(Quiet, 0, "ok")

\* line 221 with the loop going on for ever: cycles are counted up to
\* MaxCycles, the clock is read up to Horizon
SleepOn ==
  /\ pc = "sleep"
  /\ \E d \in Pauses : now' = IF now + d > Horizon THEN Horizon ELSE now + d
  /\ cycle' = IF cycle < MaxCycles THEN cycle + 1 ELSE cycle
  /\ pc' = "fetch"
  /\ route_i' = 1
  /\ fetched' = EmptyDict
  /\ cleaned' = <<>>
  /\ unit' = <<>>
  /\ UNCHANGED <<bus_station_status, last_seen_timestamps, db, hist, reported,
                 genuine0, feed, steady, reaped, seen_on, failed, changes, dashboard, derived>>

ReapNext == FetchFails \/ PollEmpty \/ PollSighting \/ PollQuiet \/ SleepOn

\* the loop keeps polling: main never stays for ever at a fetch or in a sleep
SpecReap == Init /\ [][ReapNext]_vars /\ WF_vars(ReapNext)

\* C19: once the bus has stopped appearing in the feed and the loop keeps
\* polling, its entries are eventually removed from bus_station_status and
\* from last_seen_timestamps
C19_AbsentBusIsReaped ==
  (cycle > 1) ~> (DOMAIN bus_station_status = {} /\ DOMAIN last_seen_timestamps = {})

====
